---- MODULE Spec2Model ----
(***************************************************************************)
(* Model of version_from_tag.py: a one-shot script that reads the tags of  *)
(* a Git repository, validates the version tags on HEAD against the        *)
(* versions used elsewhere in the repository and, when the validation      *)
(* succeeds, writes a C header with the version and the commit id.         *)
(*                                                                         *)
(* Text is modelled as sequences of one-character strings, so parsing,     *)
(* formatting, sorting and stripping are computed character by character.  *)
(* Python's None is modelled by a record with a presence flag.             *)
(***************************************************************************)
EXTENDS Integers, Sequences, FiniteSets, TLC

\* ------------------------------------------------------------------------
\* Bounds of the model
\* ------------------------------------------------------------------------

\* Largest number of tags in the repository snapshot
MaxTags == 3

\* Largest major number of the Versions that methods are evaluated on
MaxMajor == 1

\* ------------------------------------------------------------------------
\* Characters and strings
\* ------------------------------------------------------------------------

Digits == {"0", "1", "2", "3", "4", "5", "6", "7", "8", "9"}

IsDigit(c) == c \in Digits

\* Value of a decimal digit
DigitTable ==
    [ c \in Digits |->
        CASE c = "0" -> 0 [] c = "1" -> 1 [] c = "2" -> 2 [] c = "3" -> 3
          [] c = "4" -> 4 [] c = "5" -> 5 [] c = "6" -> 6 [] c = "7" -> 7
          [] c = "8" -> 8 [] c = "9" -> 9 ]

DigitVal(c) == DigitTable[c]

DigitChar(d) == CHOOSE c \in Digits : DigitTable[c] = d

\* Byte value of a character, the order git's refname sort compares by.
\* The two ref namespaces are single tokens; "refs/heads/" sorts first.
OrdTable ==
    [ c \in Digits \cup {"refs/heads/", "refs/tags/", "/", "S", "T", "V",
                         "_", "a", "e", "g", "m", "o", "r", "s", "t"} |->
        CASE c = "refs/heads/" -> 1
          [] c = "refs/tags/" -> 2
          [] c = "/" -> 47
          [] c \in Digits -> 48 + DigitTable[c]
          [] c = "S" -> 83
          [] c = "T" -> 84
          [] c = "V" -> 86
          [] c = "_" -> 95
          [] c = "a" -> 97
          [] c = "e" -> 101
          [] c = "g" -> 103
          [] c = "m" -> 109
          [] c = "o" -> 111
          [] c = "r" -> 114
          [] c = "s" -> 115
          [] c = "t" -> 116 ]

Ord(c) == OrdTable[c]

Min(a, b) == IF a < b THEN a ELSE b

\* strcmp order on character sequences, from position i on
RECURSIVE LexLessFrom(_, _, _)
LexLessFrom(a, b, i) ==
    IF i > Len(b) THEN FALSE
    ELSE IF i > Len(a) THEN TRUE
    ELSE IF a[i] = b[i] THEN LexLessFrom(a, b, i + 1)
    ELSE Ord(a[i]) < Ord(b[i])

LexLess(a, b) == LexLessFrom(a, b, 1)

Whitespace == {" ", "\n", "\t", "\r"}

RECURSIVE LStrip(_)
LStrip(s) ==
    IF s /= <<>> /\ Head(s) \in Whitespace THEN LStrip(Tail(s)) ELSE s

RECURSIVE RStrip(_)
RStrip(s) ==
    IF s /= <<>> /\ s[Len(s)] \in Whitespace
    THEN RStrip(SubSeq(s, 1, Len(s) - 1)) ELSE s

\* str.strip()
Strip(s) == RStrip(LStrip(s))

\* str.splitlines() of an output whose lines each end in "\n"
RECURSIVE SplitLines(_)
SplitLines(s) ==
    IF s = <<>> THEN <<>>
    ELSE LET n == CHOOSE i \in 1..(Len(s) + 1) :
                      /\ (i = Len(s) + 1 \/ s[i] = "\n")
                      /\ \A j \in 1..(i - 1) : s[j] /= "\n"
         IN  <<SubSeq(s, 1, n - 1)>> \o SplitLines(SubSeq(s, n + 1, Len(s)))

\* int() of the decimal digits s[i..j], continuing from the value acc
RECURSIVE IntFrom(_, _, _, _)
IntFrom(s, i, j, acc) ==
    IF i > j THEN acc ELSE IntFrom(s, i + 1, j, 10 * acc + DigitVal(s[i]))

\* int() of a sequence of decimal digits
int(s) == IntFrom(s, 1, Len(s), 0)

\* "{}".format(n) / "{:d}".format(n) for n >= 0
RECURSIVE FormatInt(_)
FormatInt(n) ==
    IF n < 10 THEN <<DigitChar(n)>>
    ELSE FormatInt(n \div 10) \o <<DigitChar(n % 10)>>

\* "{:02d}".format(n) for n >= 0
FormatInt02(n) == IF n < 10 THEN <<"0">> \o FormatInt(n) ELSE FormatInt(n)

\* s[:n]
Prefix(s, n) == SubSeq(s, 1, Min(n, Len(s)))

\* ------------------------------------------------------------------------
\* Program constants
\* ------------------------------------------------------------------------

valid_sw_article_nums == {10006000, 10006001, 10006010, 10006020, 10006030}

first_test_version == 900000

\* ------------------------------------------------------------------------
\* class Version
\* ------------------------------------------------------------------------

\* None for the optional provenance arguments of Version.__init__
NoneText == <<>>
NoneNum == 0 - 1

\* Version.__init__
Version(major_ver, minor_ver, build_num, creatordate, sw_article_num, sha1, tag_name) ==
    [ creatordate    |-> creatordate,
      sw_article_num |-> sw_article_num,
      sha1           |-> sha1,
      major_ver      |-> major_ver,
      minor_ver      |-> minor_ver,
      build_num      |-> build_num,
      version        |-> major_ver * 10000 + minor_ver * 100 + build_num,
      tag_name       |-> tag_name ]

\* Version(major, minor, build) with the defaults of the optional arguments
Version3(major_ver, minor_ver, build_num) ==
    Version(major_ver, minor_ver, build_num, NoneText, NoneNum, NoneText, NoneText)

\* Version.next that rolls the major number without clearing minor and build
next_keeps_lower(self, roll) ==
    LET next_ver ==
            CASE roll = "roll_major" -> self.version + 10000
              [] roll = "roll_minor" ->
                     self.version + 100 - (self.version % 100)
              [] roll = "roll_build" ->
                     self.version + 1
    IN  Version(next_ver \div 10000, (next_ver % 10000) \div 100,
                next_ver % 100,
                self.creatordate, self.sw_article_num, self.sha1, NoneText)

\* Version.next, were each number rolled on its own, without carry
next_no_carry(self, roll) ==
    CASE roll = "roll_major" ->
             Version(self.major_ver + 1, 0, 0,
                     self.creatordate, self.sw_article_num, self.sha1, NoneText)
      [] roll = "roll_minor" ->
             Version(self.major_ver, self.minor_ver + 1, 0,
                     self.creatordate, self.sw_article_num, self.sha1, NoneText)
      [] roll = "roll_build" ->
             Version(self.major_ver, self.minor_ver, self.build_num + 1,
                     self.creatordate, self.sw_article_num, self.sha1, NoneText)

\* Version.next
next(self, roll) ==
    LET next_ver ==
            CASE roll = "roll_major" ->
                     self.version + 10000 - (self.version % 10000)
              [] roll = "roll_minor" ->
                     self.version + 100 - (self.version % 100)
              [] roll = "roll_build" ->
                     self.version + 1
        next_major == next_ver \div 10000
        next_minor == (next_ver % 10000) \div 100
        next_build == next_ver % 100
    IN  Version(next_major, next_minor, next_build,
                self.creatordate, self.sw_article_num, self.sha1, NoneText)

\* Version.is_kind
is_kind(self, k) ==
    CASE k = "release" -> self.version < first_test_version
      [] k = "test"    -> self.version > first_test_version

\* Version.kind, were there no test lineage
kind_release_only(self) == "release"

\* Version.kind
kind(self) ==
    IF self.version < first_test_version THEN "release" ELSE "test"

\* Version.__eq__, __gt__, __lt__, __le__, __ne__
eq(self, other) == self.version = other.version
gt(self, other) == self.version > other.version
lt(self, other) == self.version < other.version
le(self, other) == self.version <= other.version
ne(self, other) == self.version /= other.version

\* The names that attribute lookup finds on a Version: the fields set by
\* __init__, the properties, the methods and the class attribute
VersionAttributes ==
    { "_creatordate", "_sw_article_num", "_sha1", "_major_ver", "_minor_ver",
      "_build_num", "_version", "_tag_name",
      "first_test_version", "next", "is_kind",
      "sw_article_num", "creator_date", "sha1", "tag_name", "major_ver",
      "minor_ver", "kind" }

\* Version.__ge__: it reads self.verison, and a lookup that finds no such
\* attribute raises AttributeError
ge(self, other) ==
    IF "verison" \in VersionAttributes
    THEN [raised |-> FALSE, result |-> self.version >= other.version]
    ELSE [raised |-> TRUE, result |-> "AttributeError"]

\* Version.__str__
str(self) ==
    FormatInt(self.major_ver) \o <<".">> \o FormatInt02(self.minor_ver)
        \o <<".">> \o FormatInt02(self.build_num)

\* "x in list" for a list of Versions: some element compares equal
contains(list, v) == \E i \in 1..Len(list) : eq(list[i], v)

\* ------------------------------------------------------------------------
\* Tag parsing
\* ------------------------------------------------------------------------

NoMatch ==
    [ matched |-> FALSE, sw_article_num |-> 0, major_ver |-> 0,
      minor_ver |-> 0, build_num |-> 0 ]

\* re.match of version_tag_regex
\*   (1000[0-9]{4})/V([1-9]?[0-9]{1})_([0-9]{2})(_([0-9][0-9]))?
\* at the start of the tag (text after the match is ignored), and the
\* conversion of its groups; the build group defaults to '00'.
parse_version_tag(version_tag) ==
    LET At(i) == IF i <= Len(version_tag) THEN version_tag[i] ELSE "$"
        articleOk ==
            /\ At(1) = "1" /\ At(2) = "0" /\ At(3) = "0" /\ At(4) = "0"
            /\ \A i \in 5..8 : IsDigit(At(i))
            /\ At(9) = "/" /\ At(10) = "V"
        \* "_" and two digits from position p on
        minorAt(p) == At(p) = "_" /\ IsDigit(At(p + 1)) /\ IsDigit(At(p + 2))
        \* the greedy alternative [1-9][0-9] is tried first, then [0-9]
        twoDigits == IsDigit(At(11)) /\ At(11) /= "0" /\ IsDigit(At(12))
                        /\ minorAt(13)
        oneDigit == IsDigit(At(11)) /\ minorAt(12)
        majorLen == IF twoDigits THEN 2 ELSE 1
        m == 11 + majorLen
        hasBuild == minorAt(m + 3)
    IN  IF articleOk /\ (twoDigits \/ oneDigit)
        THEN [ matched        |-> TRUE,
               sw_article_num |-> IntFrom(version_tag, 1, 8, 0),
               major_ver      |-> IntFrom(version_tag, 11, m - 1, 0),
               minor_ver      |-> IntFrom(version_tag, m + 1, m + 2, 0),
               build_num      |-> IF hasBuild
                                  THEN IntFrom(version_tag, m + 4, m + 5, 0)
                                  ELSE int(<<"0", "0">>) ]
        ELSE NoMatch

\* The product number check, were every number accepted
is_sw_article_num_valid_any(sw_article_num) == sw_article_num >= 0

is_sw_article_num_valid(sw_article_num) ==
    sw_article_num \in valid_sw_article_nums

\* ------------------------------------------------------------------------
\* The Git repository the script runs in
\* ------------------------------------------------------------------------

\* Object ids: the commit HEAD points at, another commit, and a tag object
HeadCommit  == [i \in 1..40 |-> IF i % 2 = 1 THEN "a" ELSE "1"]
OtherCommit == [i \in 1..40 |-> IF i % 2 = 1 THEN "e" ELSE "2"]
TagObject   == [i \in 1..40 |-> IF i % 2 = 1 THEN "0" ELSE "7"]

Commits == {HeadCommit, OtherCommit}

\* "tag" for an annotated tag, "commit" for a lightweight tag
ObjectTypes == {"tag", "commit"}

Article6000 == <<"1", "0", "0", "0", "6", "0", "0", "0">>
Article6001 == <<"1", "0", "0", "0", "6", "0", "0", "1">>
Article9999 == <<"1", "0", "0", "0", "9", "9", "9", "9">>

\* Tag names of the release lineage: 1.00.00 under two product numbers,
\* 1.01.00 written without build number, 1.03.00, 2.00.00, a version-shaped
\* tag of an unrecognized product number, and a tag that is no version
TagNames ==
    { Article6000 \o <<"/", "V", "1", "_", "0", "0", "_", "0", "0">>,
      Article6001 \o <<"/", "V", "1", "_", "0", "0", "_", "0", "0">>,
      Article6000 \o <<"/", "V", "1", "_", "0", "1">>,
      Article6000 \o <<"/", "V", "1", "_", "0", "3", "_", "0", "0">>,
      Article6001 \o <<"/", "V", "2", "_", "0", "0", "_", "0", "0">>,
      Article9999 \o <<"/", "V", "1", "_", "0", "0", "_", "0", "0">>,
      <<"S", "o", "m", "e", "T", "a", "g">> }

\* Tag names around the first test version 90.00.00
TestTagNames ==
    { Article6000 \o <<"/", "V", "8", "8", "_", "9", "9", "_", "9", "9">>,
      Article6000 \o <<"/", "V", "8", "9", "_", "0", "0", "_", "0", "0">>,
      Article6000 \o <<"/", "V", "9", "0", "_", "0", "0", "_", "0", "0">>,
      Article6001 \o <<"/", "V", "9", "0", "_", "0", "0", "_", "0", "1">>,
      Article6000 \o <<"/", "V", "9", "0", "_", "0", "1", "_", "0", "0">>,
      <<"S", "o", "m", "e", "T", "a", "g">> }

\* Tag names around the tags that are no versions: two versions, a
\* version-shaped tag of an unrecognized product number, and two tags that
\* are not version-shaped, one of them a version tag cut short
StrayTagNames ==
    { Article6000 \o <<"/", "V", "1", "_", "0", "0", "_", "0", "0">>,
      Article6001 \o <<"/", "V", "2", "_", "0", "0", "_", "0", "0">>,
      Article9999 \o <<"/", "V", "1", "_", "0", "0", "_", "0", "0">>,
      Article6000 \o <<"/", "V", "1", "_", "0">>,
      <<"S", "o", "m", "e", "T", "a", "g">> }

\* Output of "git diff" / "git diff --cached": nothing, or a diff
DiffOutputs == { <<>>, <<"d", "i", "f", "f", "\n">> }

\* The branch HEAD is on
BranchRef ==
    [ creatordate |-> <<"1">>, object |-> <<>>, objectname |-> HeadCommit,
      refname |-> <<"refs/heads/", "m", "a", "s", "t", "e", "r">> ]

\* The line "git for-each-ref" prints for a tag: %(object) is the commit an
\* annotated tag points at and is empty for a lightweight tag, whose
\* %(objectname) is the commit itself.
TagRef(t) ==
    [ creatordate |-> <<"1">>,
      object      |-> IF t.objecttype = "tag" THEN t.commit ELSE <<>>,
      objectname  |-> IF t.objecttype = "tag" THEN TagObject ELSE t.commit,
      refname     |-> <<"refs/tags/">> \o t.name ]

\* The character sequences of set S in strcmp order
RECURSIVE Sorted(_)
Sorted(S) ==
    IF S = {} THEN <<>>
    ELSE LET first == CHOOSE x \in S : \A y \in S \ {x} : LexLess(x, y)
         IN  <<first>> \o Sorted(S \ {first})

\* git for-each-ref --sort=refname --format=...
git_for_each_ref(tags) ==
    LET lines == {BranchRef} \cup {TagRef(t) : t \in tags}
        order == Sorted({l.refname : l \in lines})
    IN  [i \in 1..Len(order) |-> CHOOSE l \in lines : l.refname = order[i]]

\* git rev-list --max-count=1 HEAD
git_rev_list_head == HeadCommit \o <<"\n">>

\* git tag --points-at HEAD
RECURSIVE JoinLines(_)
JoinLines(lines) ==
    IF lines = <<>> THEN <<>>
    ELSE Head(lines) \o <<"\n">> \o JoinLines(Tail(lines))

git_tag_points_at_head(tags) ==
    JoinLines(Sorted({t.name : t \in {u \in tags : u.commit = HeadCommit}}))

\* git for-each-ref --format="%(objecttype)" refs/tags/<tag_name>
git_objecttype(tags, tag_name) ==
    LET found == {t \in tags : t.name = tag_name}
    IN  IF found = {} THEN <<>>
        ELSE <<(CHOOSE t \in found : TRUE).objecttype, "\n">>

\* str.replace("refs/tags/", "")
RemoveTagsPrefix(refname) ==
    SelectSeq(refname, LAMBDA c : c /= "refs/tags/")

\* ------------------------------------------------------------------------
\* Building the registry
\* ------------------------------------------------------------------------

\* The loop body of get_versions_from_tags for one line of output
RECURSIVE VersionsOfLines(_)
VersionsOfLines(lines) ==
    IF lines = <<>> THEN <<>>
    ELSE LET line == Head(lines)
             sha1 == IF line.object /= <<>> THEN line.object
                     ELSE line.objectname
             tag_name == RemoveTagsPrefix(line.refname)
             parsed_tag == parse_version_tag(tag_name)
             this == IF parsed_tag.matched
                        /\ is_sw_article_num_valid(parsed_tag.sw_article_num)
                     THEN << Version(parsed_tag.major_ver, parsed_tag.minor_ver,
                                     parsed_tag.build_num, line.creatordate,
                                     parsed_tag.sw_article_num, sha1, tag_name) >>
                     ELSE <<>>
         IN  this \o VersionsOfLines(Tail(lines))

get_versions_from_tags(tags) == VersionsOfLines(git_for_each_ref(tags))

\* list.remove(x): drops the first element that compares equal to x
RECURSIVE remove(_, _)
remove(list, x) ==
    IF list = <<>> THEN <<>>
    ELSE IF eq(Head(list), x) THEN Tail(list)
    ELSE <<Head(list)>> \o remove(Tail(list), x)

RECURSIVE RemoveAll(_, _)
RemoveAll(list, xs) ==
    IF xs = <<>> THEN list ELSE RemoveAll(remove(list, Head(xs)), Tail(xs))

HeadSelect(versions_, head_sha1_) ==
    SelectSeq(versions_, LAMBDA v : v.sha1 = head_sha1_)

\* Python's None for head_versions
None == [is_none |-> TRUE, list |-> <<>>]
Some(list) == [is_none |-> FALSE, list |-> list]

\* get_head_versions: the returned head_versions ...
get_head_versions(versions_, head_sha1_) ==
    IF Len(HeadSelect(versions_, head_sha1_)) > 0
    THEN Some(HeadSelect(versions_, head_sha1_))
    ELSE None

\* ... and the list versions it leaves behind
versions_after_get_head_versions(versions_, head_sha1_) ==
    RemoveAll(versions_, HeadSelect(versions_, head_sha1_))

\* get_head_sha1
get_head_sha1 == Strip(git_rev_list_head)

\* get_head_has_local_changes
get_head_has_local_changes(workingtree_diff_, index_diff_) ==
    <<Strip(workingtree_diff_), Strip(index_diff_)>>

\* ------------------------------------------------------------------------
\* The checks.  Each yields what it raises (if anything) and the warnings
\* it appends to warning_msgs.
\* ------------------------------------------------------------------------

\* A message: its fixed text and the values formatted into it
Msg(text, args) == [is_none |-> FALSE, text |-> text, args |-> args]
NoMsg == [is_none |-> TRUE, text |-> "", args |-> <<>>]

\* raise VersionTagError(error_code, error_msg)
VersionTagError(error_code_, error_msg_) ==
    [raised |-> TRUE, error_code |-> error_code_, error_msg |-> error_msg_]
NoError == [raised |-> FALSE, error_code |-> 0, error_msg |-> NoMsg]

\* The duplicate check, were equality to include the product number
check_head_version_already_used_same_article(head_version, prev_versions) ==
    IF \E i \in 1..Len(prev_versions) :
            /\ eq(prev_versions[i], head_version)
            /\ prev_versions[i].sw_article_num = head_version.sw_article_num
    THEN VersionTagError(1, Msg("The version {} has already been used",
                                <<str(head_version)>>))
    ELSE NoError

check_head_version_already_used(head_version, prev_versions) ==
    IF \E i \in 1..Len(prev_versions) : eq(prev_versions[i], head_version)
    THEN VersionTagError(1, Msg("The version {} has already been used",
                                <<str(head_version)>>))
    ELSE NoError

\* The multiplicity check, were only lower versions than the first found
check_head_has_multiple_versions_lower_only(head_versions_) ==
    LET differs == {i \in 1..Len(head_versions_) :
                        lt(head_versions_[i], head_versions_[1])}
    IN  IF differs /= {}
        THEN LET i == CHOOSE j \in differs : \A k \in differs : j <= k
             IN  VersionTagError(3,
                    Msg("HEAD seems to be tagged with multiple versions. At least the tag {} and {} have different versions.",
                        <<head_versions_[i].tag_name, head_versions_[1].tag_name>>))
        ELSE NoError

check_head_has_multiple_versions(head_versions_) ==
    LET differs == {i \in 1..Len(head_versions_) :
                        ne(head_versions_[i], head_versions_[1])}
    IN  IF differs /= {}
        THEN LET i == CHOOSE j \in differs : \A k \in differs : j <= k
             IN  VersionTagError(3,
                    Msg("HEAD seems to be tagged with multiple versions. At least the tag {} and {} have different versions.",
                        <<head_versions_[i].tag_name, head_versions_[1].tag_name>>))
        ELSE NoError

\* The search for the most recent version, were the kind not compared
RECURSIVE most_recent_version_any_kind(_, _, _)
most_recent_version_any_kind(prev_versions, head_version_kind, acc) ==
    IF prev_versions = <<>> THEN acc
    ELSE most_recent_version_any_kind(Tail(prev_versions), head_version_kind,
            IF gt(Head(prev_versions), acc) THEN Head(prev_versions) ELSE acc)

\* The search for the most recent version, were the last version of the
\* kind taken instead of the greatest
RECURSIVE most_recent_version_last(_, _, _)
most_recent_version_last(prev_versions, head_version_kind, acc) ==
    IF prev_versions = <<>> THEN acc
    ELSE most_recent_version_last(Tail(prev_versions), head_version_kind,
            IF is_kind(Head(prev_versions), head_version_kind)
            THEN Head(prev_versions) ELSE acc)

\* The loop of check_head_version_skipped_a_version that finds the most
\* recent version among the previous versions
RECURSIVE most_recent_version(_, _, _)
most_recent_version(prev_versions, head_version_kind, acc) ==
    IF prev_versions = <<>> THEN acc
    ELSE most_recent_version(Tail(prev_versions), head_version_kind,
            IF is_kind(Head(prev_versions), head_version_kind)
               /\ gt(Head(prev_versions), acc)
            THEN Head(prev_versions) ELSE acc)

check_head_version_skipped_a_version(head_version, prev_versions) ==
    LET most_recent == most_recent_version(prev_versions, kind(head_version),
                                           Version3(0, 0, 0))
        release_next == << next(most_recent, "roll_major"),
                           next(most_recent, "roll_minor"),
                           next(most_recent, "roll_build") >>
        test_next == << next(most_recent, "roll_minor"),
                        next(most_recent, "roll_build") >>
    IN  IF le(head_version, most_recent)
        THEN [ error |-> NoError,
               warnings |-> << Msg("HEAD is tagged with version {} but the most recent version is {}. Was this the intention (you might have checked out an earlier commit)?",
                                   <<str(head_version), str(most_recent)>>) >> ]
        ELSE IF kind(head_version) = "release"
        THEN IF gt(head_version, most_recent)
                /\ ~ contains(release_next, head_version)
             THEN [ error |-> VersionTagError(5,
                        Msg("You skipped a release version, the next version should be either {}, {}, or {}.",
                            <<str(release_next[1]), str(release_next[2]),
                              str(release_next[3])>>)),
                    warnings |-> <<>> ]
             ELSE [error |-> NoError, warnings |-> <<>>]
        ELSE IF ~ contains(test_next, head_version)
             THEN [ error |-> VersionTagError(5,
                        Msg("You skipped a test version, the next version should be either {} or {}.",
                            <<str(test_next[1]), str(test_next[2])>>)),
                    warnings |-> <<>> ]
             ELSE [error |-> NoError, warnings |-> <<>>]

\* The annotation check, were only the first head version looked at
check_tag_is_lightweight_first_only(head_versions_, tags_) ==
    IF Strip(git_objecttype(tags_, head_versions_[1].tag_name)) = <<"commit">>
    THEN VersionTagError(4,
            Msg("You assigned a lightweight tag ({}) to HEAD, you should use annotated tags (git tag -a)",
                <<head_versions_[1].tag_name>>))
    ELSE NoError

check_tag_is_lightweight(head_versions_, tags_) ==
    LET light == {i \in 1..Len(head_versions_) :
                    Strip(git_objecttype(tags_, head_versions_[i].tag_name))
                        = <<"commit">>}
    IN  IF light /= {}
        THEN LET i == CHOOSE j \in light : \A k \in light : j <= k
             IN  VersionTagError(4,
                    Msg("You assigned a lightweight tag ({}) to HEAD, you should use annotated tags (git tag -a)",
                        <<head_versions_[i].tag_name>>))
        ELSE NoError

\* The clean-tree check, were local changes let through
check_head_has_local_changes_never(workingtree_has_changes, index_has_changes) ==
    NoError

\* The clean-tree check, were the index not looked at
check_head_has_local_changes_worktree_only(workingtree_has_changes, index_has_changes) ==
    IF workingtree_has_changes /= <<>>
    THEN VersionTagError(2,
            Msg("HEAD is tagged but has local changes. This is not allowed.", <<>>))
    ELSE NoError

check_head_has_local_changes(workingtree_has_changes, index_has_changes) ==
    IF workingtree_has_changes /= <<>>
    THEN VersionTagError(2,
            Msg("HEAD is tagged but has local changes. This is not allowed.", <<>>))
    ELSE IF index_has_changes /= <<>>
    THEN VersionTagError(2,
            Msg("HEAD is tagged but has staged changes. This is not allowed.", <<>>))
    ELSE NoError

\* The stray-tag check, were a version-shaped tag of an unrecognized
\* product number taken for a non-version tag
check_head_has_version_and_nonversion_tag_valid_only(tags_) ==
    LET head_tags == SplitLines(git_tag_points_at_head(tags_))
        non_version_tags ==
            SelectSeq(head_tags,
                LAMBDA t : ~ (/\ parse_version_tag(t).matched
                              /\ is_sw_article_num_valid(
                                     parse_version_tag(t).sw_article_num)))
    IN  IF Len(non_version_tags) > 0
        THEN << Msg("HEAD was tagged with both version and non-version tags. Was this the intent? The non-version tags are: {}",
                    non_version_tags) >>
        ELSE <<>>

\* The warnings check_head_has_version_and_nonversion_tag appends
check_head_has_version_and_nonversion_tag(tags_) ==
    LET head_tags == SplitLines(git_tag_points_at_head(tags_))
        non_version_tags ==
            SelectSeq(head_tags, LAMBDA t : ~ parse_version_tag(t).matched)
    IN  IF Len(non_version_tags) > 0
        THEN << Msg("HEAD was tagged with both version and non-version tags. Was this the intent? The non-version tags are: {}",
                    non_version_tags) >>
        ELSE <<>>

\* ------------------------------------------------------------------------
\* Output
\* ------------------------------------------------------------------------

NoFile == [exists |-> FALSE, SW_VER_MAJOR |-> <<>>, SW_VER_MINOR |-> <<>>,
           SW_REVISIONHASH |-> <<>>]

\* The three defines of the header write_version_file writes
write_version_file(head_versions_, head_sha1_, workingtree_has_changes, index_has_changes) ==
    LET has_local_changes ==
            workingtree_has_changes /= <<>> \/ index_has_changes /= <<>>
        major_ver == IF head_versions_.is_none THEN 90
                     ELSE head_versions_.list[1].major_ver
        minor_ver == IF head_versions_.is_none THEN 0
                     ELSE head_versions_.list[1].minor_ver
    IN  [ exists |-> TRUE,
          SW_VER_MAJOR |-> FormatInt(major_ver),
          SW_VER_MINOR |-> FormatInt(minor_ver),
          SW_REVISIONHASH |-> IF has_local_changes
                              THEN <<"+">> \o head_sha1_
                              ELSE Prefix(head_sha1_, 12) ]

\* The commit and version print_version_information prints
print_version_information(head_versions_, head_sha1_) ==
    [ commit |-> Prefix(head_sha1_, 12),
      version |-> IF head_versions_.is_none
                  THEN <<"9", "0", ".", "0", "0", ".", "0", "0">>
                  ELSE str(head_versions_.list[1]) ]

\* ------------------------------------------------------------------------
\* State
\* ------------------------------------------------------------------------

VARIABLES
    tags,                \* the repository's tags: name, commit, object type
    workingtree_diff,    \* what "git diff" prints
    index_diff,          \* what "git diff --cached" prints
    target_file,         \* the header file on disk
    pc,                  \* position of run()
    versions,            \* run(): versions
    head_sha1,           \* run(): head_sha1
    head_versions,       \* run(): head_versions
    workingtree_changes, \* run(): workingtree_changes
    index_changes,       \* run(): index_changes
    error_code,          \* run(): error_code
    error_msg,           \* run(): error_msg
    warning_msgs,        \* the module's global warning_msgs
    exception,           \* the VersionTagError in flight, if any
    stdout,              \* what the current run printed
    written,             \* whether the current run opened target_file for writing
    lhs,                 \* a Version: the receiver of a method under evaluation
    rhs,                 \* a Version: the other operand of a comparison
    op,                  \* the method evaluated on lhs, "none" before
    value                \* what the evaluation returned or raised

operands == <<lhs, rhs, op, value>>
repo == <<tags, workingtree_diff, index_diff>>
locals == <<versions, head_sha1, head_versions, workingtree_changes, index_changes>>
result == <<error_code, error_msg>>
vars == <<tags, workingtree_diff, index_diff, target_file, pc, versions,
          head_sha1, head_versions, workingtree_changes, index_changes,
          error_code, error_msg, warning_msgs, exception, stdout, written,
          lhs, rhs, op, value>>

NoOutput == [commit |-> <<>>, version |-> <<>>]

\* A repository with at most MaxTags tags named from names, each on HEAD or
\* on another commit, annotated or lightweight; the module is loaded and
\* run() has not been called.
InitRepo(names) ==
    /\ \E chosen \in SUBSET names :
         /\ Cardinality(chosen) <= MaxTags
         /\ \E place \in [chosen -> Commits \X ObjectTypes] :
              tags = { [name |-> n, commit |-> place[n][1],
                        objecttype |-> place[n][2]] : n \in chosen }
    /\ workingtree_diff \in DiffOutputs
    /\ index_diff \in DiffOutputs
    /\ target_file = NoFile
    /\ pc = "idle"
    /\ versions = <<>>
    /\ head_sha1 = <<>>
    /\ head_versions = None
    /\ workingtree_changes = <<>>
    /\ index_changes = <<>>
    /\ error_code = 0
    /\ error_msg = NoMsg
    /\ warning_msgs = <<>>
    /\ exception = NoError
    /\ stdout = NoOutput
    /\ written = FALSE

\* What a method evaluation returns, or the exception it raises
Returns(v) == [raised |-> FALSE, result |-> v]
Raises(e) == [raised |-> TRUE, result |-> e]

\* No method of Version is under evaluation
NoOperands ==
    /\ lhs = Version3(0, 0, 0)
    /\ rhs = Version3(0, 0, 0)
    /\ op = "none"
    /\ value = Returns("none")

Init == InitRepo(TagNames) /\ NoOperands

InitTest == InitRepo(TestTagNames) /\ NoOperands

InitStray == InitRepo(StrayTagNames) /\ NoOperands

\* ------------------------------------------------------------------------
\* run(target_file), one action per statement
\* ------------------------------------------------------------------------

\* run up to its try block, were warning_msgs not emptied
run_begin_keeps_warnings ==
    /\ pc \in {"idle", "returned"}
    /\ error_code' = 0
    /\ error_msg' = NoMsg
    /\ LET all_versions == get_versions_from_tags(tags)
           sha1 == get_head_sha1
           changes == get_head_has_local_changes(workingtree_diff, index_diff)
       IN  /\ head_sha1' = sha1
           /\ head_versions' = get_head_versions(all_versions, sha1)
           /\ versions' = versions_after_get_head_versions(all_versions, sha1)
           /\ workingtree_changes' = changes[1]
           /\ index_changes' = changes[2]
    /\ exception' = NoError
    /\ stdout' = NoOutput
    /\ written' = FALSE
    /\ pc' = "check_head"
    /\ UNCHANGED <<operands, repo, target_file, warning_msgs>>

\* run up to its try block: error_code = 0; error_msg = None;
\* warning_msgs = []; versions = get_versions_from_tags(); head_sha1 =
\* get_head_sha1(); head_versions = get_head_versions(versions, head_sha1);
\* (workingtree_changes, index_changes) = get_head_has_local_changes()
run_begin ==
    /\ pc \in {"idle", "returned"}
    /\ error_code' = 0
    /\ error_msg' = NoMsg
    /\ warning_msgs' = <<>>
    /\ LET all_versions == get_versions_from_tags(tags)
           sha1 == get_head_sha1
           changes == get_head_has_local_changes(workingtree_diff, index_diff)
       IN  /\ head_sha1' = sha1
           /\ head_versions' = get_head_versions(all_versions, sha1)
           /\ versions' = versions_after_get_head_versions(all_versions, sha1)
           /\ workingtree_changes' = changes[1]
           /\ index_changes' = changes[2]
    /\ exception' = NoError
    /\ stdout' = NoOutput
    /\ written' = FALSE
    /\ pc' = "check_head"
    /\ UNCHANGED <<operands, repo, target_file>>

\* A check of check_head at position here: it raises, or control moves on
Check(here, outcome, appended, then) ==
    /\ pc = here
    /\ warning_msgs' = warning_msgs \o appended
    /\ exception' = outcome
    /\ pc' = IF outcome.raised THEN "except" ELSE then
    /\ UNCHANGED <<operands, repo, target_file, locals, result, stdout, written>>

\* check_head: "if head_versions is not None", then the first check
check_head_already_used ==
    IF head_versions.is_none
    THEN Check("check_head", NoError, <<>>, "write_version_file")
    ELSE Check("check_head",
               check_head_version_already_used(head_versions.list[1], versions),
               <<>>, "check_skipped")

check_head_skipped ==
    /\ pc = "check_skipped"
    /\ LET r == check_head_version_skipped_a_version(head_versions.list[1],
                                                     versions)
       IN  Check("check_skipped", r.error, r.warnings, "check_lightweight")

check_head_lightweight ==
    /\ pc = "check_lightweight"
    /\ Check("check_lightweight",
             check_tag_is_lightweight(head_versions.list, tags),
             <<>>, "check_multiple")

check_head_multiple ==
    /\ pc = "check_multiple"
    /\ Check("check_multiple",
             check_head_has_multiple_versions(head_versions.list),
             <<>>, "check_local_changes")

check_head_local_changes ==
    /\ pc = "check_local_changes"
    /\ Check("check_local_changes",
             check_head_has_local_changes(workingtree_changes, index_changes),
             <<>>, "check_nonversion")

check_head_nonversion ==
    /\ pc = "check_nonversion"
    /\ Check("check_nonversion", NoError,
             check_head_has_version_and_nonversion_tag(tags),
             "write_version_file")

\* write_version_file(target_file, head_versions, head_sha1, ...)
run_write_version_file ==
    /\ pc = "write_version_file"
    /\ target_file' = write_version_file(head_versions, head_sha1,
                                         workingtree_changes, index_changes)
    /\ written' = TRUE
    /\ pc' = "print_version_information"
    /\ UNCHANGED <<operands, repo, locals, result, warning_msgs, exception, stdout>>

\* print_version_information(versions, head_versions, head_sha1)
run_print_version_information ==
    /\ pc = "print_version_information"
    /\ stdout' = print_version_information(head_versions, head_sha1)
    /\ pc' = "return"
    /\ UNCHANGED <<operands, repo, target_file, locals, result, warning_msgs,
                   exception, written>>

\* The except clause, were the header written on failure as well
run_except_writes ==
    /\ pc = "except"
    /\ error_code' = exception.error_code
    /\ error_msg' = exception.error_msg
    /\ exception' = NoError
    /\ target_file' = write_version_file(head_versions, head_sha1,
                                         workingtree_changes, index_changes)
    /\ written' = TRUE
    /\ pc' = "return"
    /\ UNCHANGED <<operands, repo, locals, warning_msgs, stdout>>

\* except VersionTagError as e: error_code = e.error_code; error_msg = ...
run_except ==
    /\ pc = "except"
    /\ error_code' = exception.error_code
    /\ error_msg' = exception.error_msg
    /\ exception' = NoError
    /\ pc' = "return"
    /\ UNCHANGED <<operands, repo, target_file, locals, warning_msgs, stdout, written>>

\* return (error_code, error_msg, warning_msgs)
run_return ==
    /\ pc = "return"
    /\ pc' = "returned"
    /\ UNCHANGED <<operands, repo, target_file, locals, result, warning_msgs,
                   exception, stdout, written>>

Next ==
    \/ run_begin
    \/ check_head_already_used
    \/ check_head_skipped
    \/ check_head_lightweight
    \/ check_head_multiple
    \/ check_head_local_changes
    \/ check_head_nonversion
    \/ run_write_version_file
    \/ run_print_version_information
    \/ run_except
    \/ run_return

Spec == Init /\ [][Next]_vars

SpecTest == InitTest /\ [][Next]_vars

SpecStray == InitStray /\ [][Next]_vars

\* ------------------------------------------------------------------------
\* Evaluation of the comparison operators of Version on two operands
\* ------------------------------------------------------------------------

\* Provenance of a Version: the defaults of __init__, or that of a tag
Provenances ==
    { [creatordate |-> NoneText, sw_article_num |-> NoneNum,
       sha1 |-> NoneText, tag_name |-> NoneText],
      [creatordate |-> <<"1">>, sw_article_num |-> 10006001,
       sha1 |-> OtherCommit,
       tag_name |-> <<"S", "o", "m", "e", "T", "a", "g">>] }

\* The Versions compared: every major up to MaxMajor, the ends of the
\* ranges of minor and build, every provenance
ComparedVersions ==
    { Version(mj, mn, b, p.creatordate, p.sw_article_num, p.sha1, p.tag_name) :
        mj \in 0..MaxMajor, mn \in {0, 1, 99}, b \in {0, 1, 99},
        p \in Provenances }

\* The run() part of the state while only methods are evaluated
NoRun ==
    /\ InitRepo({})
    /\ workingtree_diff = <<>>
    /\ index_diff = <<>>

InitCompare ==
    /\ NoRun
    /\ lhs \in ComparedVersions
    /\ rhs \in ComparedVersions
    /\ op = "none"
    /\ value = Returns("none")

\* lhs <op> rhs is evaluated
Evaluate(name, outcome) ==
    /\ op = "none"
    /\ op' = name
    /\ value' = outcome
    /\ UNCHANGED <<lhs, rhs, repo, target_file, pc, locals, result,
                   warning_msgs, exception, stdout, written>>

compare_eq == Evaluate("==", Returns(eq(lhs, rhs)))
compare_ne == Evaluate("!=", Returns(ne(lhs, rhs)))
compare_lt == Evaluate("<", Returns(lt(lhs, rhs)))
compare_gt == Evaluate(">", Returns(gt(lhs, rhs)))
compare_le == Evaluate("<=", Returns(le(lhs, rhs)))
compare_ge == Evaluate(">=", ge(lhs, rhs))

NextCompare ==
    \/ compare_eq
    \/ compare_ne
    \/ compare_lt
    \/ compare_gt
    \/ compare_le
    \/ compare_ge

SpecCompare == InitCompare /\ [][NextCompare]_vars

\* ------------------------------------------------------------------------
\* Evaluation of Version.next on one Version
\* ------------------------------------------------------------------------

\* The Versions rolled: every major up to MaxMajor, every minor and build
\* of two digits, every provenance
RolledVersions ==
    { Version(mj, mn, b, p.creatordate, p.sw_article_num, p.sha1, p.tag_name) :
        mj \in 0..MaxMajor, mn \in 0..99, b \in 0..99, p \in Provenances }

InitNext ==
    /\ NoRun
    /\ lhs \in RolledVersions
    /\ rhs = Version3(0, 0, 0)
    /\ op = "none"
    /\ value = Returns("none")

next_roll_major == Evaluate("roll_major", Returns(next(lhs, "roll_major")))
next_roll_minor == Evaluate("roll_minor", Returns(next(lhs, "roll_minor")))
next_roll_build == Evaluate("roll_build", Returns(next(lhs, "roll_build")))

NextNext ==
    \/ next_roll_major
    \/ next_roll_minor
    \/ next_roll_build

SpecNext == InitNext /\ [][NextNext]_vars

\* ------------------------------------------------------------------------
\* The registry and the failure conditions of the checks, stated on the
\* repository itself
\* ------------------------------------------------------------------------

\* A tag with what its name parses to: whether it is version-shaped, its
\* product number and its order key major*10000 + minor*100 + build
Entry(t) ==
    LET p == parse_version_tag(t.name)
    IN  [ name |-> t.name, commit |-> t.commit, objecttype |-> t.objecttype,
          shaped |-> p.matched,
          article |-> p.sw_article_num,
          key |-> p.major_ver * 10000 + p.minor_ver * 100 + p.build_num ]

\* The registry: the version-shaped tags of a recognized product number
registry ==
    {e \in {Entry(t) : t \in tags} :
        e.shaped /\ e.article \in valid_sw_article_nums}

headVersions == {e \in registry : e.commit = HeadCommit}

historicalVersions == {e \in registry : e.commit /= HeadCommit}

HeadPresent == headVersions /= {}

\* headVersions[0]: the first head version by tag name
headFirst ==
    LET hv == headVersions
    IN  CHOOSE t \in hv : \A u \in hv : u = t \/ LexLess(t.name, u.name)

KindOfKey(k) == IF k < first_test_version THEN "release" ELSE "test"

SetMax(S) == CHOOSE x \in S : \A y \in S : y <= x

\* Order key of the most recent historical version of kind k, 0 if none
mostRecentKey(k) ==
    SetMax({0} \cup {h.key : h \in {x \in historicalVersions :
                                        KindOfKey(x.key) = k}})

\* Successors: the smallest multiple of 10000 / of 100 above the key, key+1
RollMajor(k) == (k \div 10000 + 1) * 10000
RollMinor(k) == (k \div 100 + 1) * 100
RollBuild(k) == k + 1

\* The valid successors of order key mr in the lineage of kind k
Successors(mr, k) ==
    IF k = "release" THEN {RollMajor(mr), RollMinor(mr), RollBuild(mr)}
    ELSE {RollMinor(mr), RollBuild(mr)}

\* Dotted rendering of an order key, as in 1.02.00
Dotted(k) ==
    FormatInt(k \div 10000) \o <<".">> \o FormatInt02((k % 10000) \div 100)
        \o <<".">> \o FormatInt02(k % 100)

\* Failure conditions of the five fatal checks
DuplicateHolds ==
    LET k == headFirst.key
    IN  \E h \in historicalVersions : h.key = k

SkipHolds ==
    LET k  == headFirst.key
        mr == mostRecentKey(KindOfKey(k))
    IN  k > mr /\ k \notin Successors(mr, KindOfKey(k))

LightweightHolds == \E t \in headVersions : t.objecttype = "commit"

MultipleHolds ==
    LET hv == headVersions
    IN  \E t, u \in hv : t.key /= u.key

DirtyHolds == workingtree_diff /= <<>> \/ index_diff /= <<>>

Returned == pc = "returned"

\* ------------------------------------------------------------------------
\* C1  Duplicate detection: whenever some historical version has the order
\* key of headVersions[0], whatever the tag names and product numbers, the
\* annotation of the tags, the other tags on HEAD and the state of working
\* tree and index, run returns error code 1 with a non-empty error message.
\* ------------------------------------------------------------------------
C1_DuplicateDetection ==
    (Returned /\ HeadPresent /\ DuplicateHolds)
        => /\ error_code = 1
           /\ ~ error_msg.is_none
           /\ error_msg.text /= ""

\* A duplicate under another product number, on a lightweight tag of a
\* dirty tree, with a second version on HEAD
C1_Witness ==
    /\ Returned /\ HeadPresent /\ DuplicateHolds
    /\ \E h \in historicalVersions :
          h.key = headFirst.key /\ h.article /= headFirst.article
    /\ headFirst.objecttype = "commit"
    /\ MultipleHolds
    /\ DirtyHolds
    /\ error_code = 1

\* ------------------------------------------------------------------------
\* C2  Skip detection: a release-kind headVersions[0] that is no duplicate,
\* is greater than the most recent release and is none of its three
\* successors makes run return error code 5 with a message that lists the
\* successors by major, by minor and by build, in this order.
\* ------------------------------------------------------------------------
C2_Case ==
    /\ Returned /\ HeadPresent
    /\ LET k  == headFirst.key
           mr == mostRecentKey("release")
       IN  /\ KindOfKey(k) = "release"
           /\ ~ DuplicateHolds
           /\ k > mr
           /\ k \notin {RollMajor(mr), RollMinor(mr), RollBuild(mr)}

C2_SkipDetection ==
    C2_Case
        => LET mr == mostRecentKey("release")
           IN  /\ error_code = 5
               /\ ~ error_msg.is_none
               /\ error_msg.args = << Dotted(RollMajor(mr)),
                                      Dotted(RollMinor(mr)),
                                      Dotted(RollBuild(mr)) >>

\* Most recent release 1.01.00, HEAD tagged 1.03.00
C2_Witness ==
    /\ C2_Case
    /\ mostRecentKey("release") = 10100
    /\ headFirst.key = 10300
    /\ error_msg.args = << Dotted(20000), Dotted(10200), Dotted(10101) >>

\* HEAD carries exactly one recognized version tag, annotated, no tag that
\* is not version-shaped, and working tree and index are clean
SingleCleanHead ==
    /\ Cardinality(headVersions) = 1
    /\ headFirst.objecttype = "tag"
    /\ ~ DirtyHolds
    /\ \A t \in tags :
          t.commit = HeadCommit => parse_version_tag(t.name).matched

\* ------------------------------------------------------------------------
\* C3  Valid successor acceptance, as claimed: a single annotated version
\* tag on a clean HEAD that equals a successor of the most recent release
\* by major, minor or build yields error code 0, no error message and no
\* warning.
\* ------------------------------------------------------------------------
C3_Case ==
    /\ Returned /\ SingleCleanHead
    /\ headFirst.key \in { RollMajor(mostRecentKey("release")),
                           RollMinor(mostRecentKey("release")),
                           RollBuild(mostRecentKey("release")) }

C3_Accepted == error_code = 0 /\ error_msg.is_none /\ warning_msgs = <<>>

C4_Case == Returned /\ HeadPresent /\ MultipleHolds

C4_Original ==
    C4_Case => (error_code = 3 /\ ~ error_msg.is_none /\ error_msg.text /= "")

\* C4 as amended: run fails with a non-empty error message, and the error
\* code is 3 unless the duplicate, the skip or the annotation check fails
\* first, with code 1, 5 or 4.
C4_MultipleVersions ==
    C4_Case
        => /\ ~ error_msg.is_none
           /\ error_msg.text /= ""
           /\ error_code = IF DuplicateHolds THEN 1
                           ELSE IF SkipHolds THEN 5
                           ELSE IF LightweightHolds THEN 4
                           ELSE 3

\* Two annotated tags of different versions on HEAD, the first a valid
\* successor
C4_Witness ==
    /\ C4_Case
    /\ ~ DuplicateHolds /\ ~ SkipHolds /\ ~ LightweightHolds
    /\ error_code = 3
    /\ Len(error_msg.args) = 2

\* ------------------------------------------------------------------------
\* C5  Clean-tree enforcement, as claimed: a version tag on HEAD and a
\* non-empty working-tree diff or index diff make run return error code 2.
\* ------------------------------------------------------------------------
C5_Case == Returned /\ HeadPresent /\ DirtyHolds

C5_Original == C5_Case => error_code = 2

\* C5 as amended: run fails, and the error code is 2 unless the duplicate,
\* the skip, the annotation or the multiplicity check fails first, with
\* code 1, 5, 4 or 3.
C5_CleanTree ==
    C5_Case
        => /\ ~ error_msg.is_none
           /\ error_code = IF DuplicateHolds THEN 1
                           ELSE IF SkipHolds THEN 5
                           ELSE IF LightweightHolds THEN 4
                           ELSE IF MultipleHolds THEN 3
                           ELSE 2

\* Staged changes only, under an otherwise valid version tag
C5_Witness ==
    /\ C5_Case
    /\ workingtree_diff = <<>>
    /\ index_diff /= <<>>
    /\ error_code = 2

\* ------------------------------------------------------------------------
\* C6  Annotation check: when the duplicate and the skip check have passed
\* (the run did not end with code 1 or 5) and any tag of headVersions is a
\* lightweight tag, run returns error code 4, whether or not HEAD carries
\* conflicting versions or local changes.
\* ------------------------------------------------------------------------
C6_AnnotationCheck ==
    (Returned /\ HeadPresent /\ LightweightHolds /\ error_code \notin {1, 5})
        => (error_code = 4 /\ ~ error_msg.is_none)

\* The first head version is annotated, a later one is lightweight, the
\* versions differ and the tree is dirty
C6_Witness ==
    /\ Returned /\ HeadPresent /\ LightweightHolds
    /\ headFirst.objecttype = "tag"
    /\ MultipleHolds
    /\ DirtyHolds
    /\ error_code = 4

\* ------------------------------------------------------------------------
\* C7  No-tag silence: when no tag on HEAD yields a recognized version, run
\* returns error code 0, no error message and no warning, whatever the
\* historical versions and the state of working tree and index.
\* ------------------------------------------------------------------------
C7_NoTagSilence ==
    (Returned /\ ~ HeadPresent)
        => (error_code = 0 /\ error_msg.is_none /\ warning_msgs = <<>>)

\* A duplicated historical version, a lightweight tag elsewhere, a dirty
\* tree and, on HEAD, a tag that is not a recognized version
C7_Witness ==
    /\ Returned /\ ~ HeadPresent
    /\ \E h, g \in historicalVersions : h /= g /\ h.key = g.key
    /\ \E h \in historicalVersions : h.objecttype = "commit"
    /\ \E t \in tags : t.commit = HeadCommit
    /\ DirtyHolds
    /\ error_code = 0

\* ------------------------------------------------------------------------
\* C8  Earlier-checkout tolerance, as claimed: a single annotated version
\* tag on a clean HEAD whose version is less than or equal to the most
\* recent historical version of its kind yields error code 0 and exactly
\* one warning, which names the head version and the most recent version.
\* ------------------------------------------------------------------------
C8_Case ==
    /\ Returned /\ SingleCleanHead
    /\ \E h \in historicalVersions :
          KindOfKey(h.key) = KindOfKey(headFirst.key)
    /\ headFirst.key <= mostRecentKey(KindOfKey(headFirst.key))

C8_Tolerated ==
    /\ error_code = 0
    /\ error_msg.is_none
    /\ Len(warning_msgs) = 1
    /\ warning_msgs[1].args =
          << Dotted(headFirst.key),
             Dotted(mostRecentKey(KindOfKey(headFirst.key))) >>

C8_Original == C8_Case => C8_Tolerated

\* C8 as amended: the same, for a head version that is strictly less than
\* the most recent historical version of its kind and equal to no
\* historical version (an equal one is a duplicate, error code 1).
C8_EarlierCheckout == (C8_Case /\ ~ DuplicateHolds) => C8_Tolerated

\* HEAD tagged 1.01.00 while 2.00.00 exists on another commit
C8_Witness ==
    /\ C8_Case /\ ~ DuplicateHolds
    /\ headFirst.key = 10100
    /\ mostRecentKey("release") = 20000
    /\ C8_Tolerated

\* ------------------------------------------------------------------------
\* C9  Failure precedence: with a head version present, the error code run
\* returns is the code of the first check, in the order duplicate (1),
\* skip (5), annotation (4), multiplicity (3), clean tree (2), whose
\* failure condition holds, and 0 exactly when none holds.
\* ------------------------------------------------------------------------
FirstFailure ==
    IF DuplicateHolds THEN 1
    ELSE IF SkipHolds THEN 5
    ELSE IF LightweightHolds THEN 4
    ELSE IF MultipleHolds THEN 3
    ELSE IF DirtyHolds THEN 2
    ELSE 0

C9_FailurePrecedence ==
    (Returned /\ HeadPresent) => error_code = FirstFailure

\* ------------------------------------------------------------------------
\* C10  The header file is written during a run if and only if the run
\* returns error code 0: after a fatal outcome the file is untouched, after
\* a successful one it is written.
\* ------------------------------------------------------------------------
C10_WrittenIffSuccess ==
    Returned
        => /\ written <=> error_code = 0
           /\ error_code /= 0 => target_file = NoFile
           /\ error_code = 0 => target_file.exists

\* A run stopped by the last fatal check leaves no file
C10_Witness ==
    /\ Returned
    /\ error_code = 2
    /\ ~ written
    /\ target_file = NoFile

\* ------------------------------------------------------------------------
\* C11  Stray-tag warning: when none of the five fatal failure conditions
\* holds and HEAD also carries tags that are not version-shaped, run
\* returns error code 0 with no error message and one warning that lists
\* exactly the tags on HEAD that are not version-shaped, never a
\* version-shaped tag of whatever product number; when HEAD carries no such
\* tag, no stray-tag warning is appended.
\* ------------------------------------------------------------------------
StrayText ==
    "HEAD was tagged with both version and non-version tags. Was this the intent? The non-version tags are: {}"

\* Names of the tags on HEAD that are not version-shaped
strayOnHead ==
    {t.name : t \in {u \in tags : u.commit = HeadCommit
                                  /\ ~ parse_version_tag(u.name).matched}}

StrayWarnings == SelectSeq(warning_msgs, LAMBDA w : w.text = StrayText)

AllFatalChecksPass ==
    /\ HeadPresent
    /\ ~ DuplicateHolds /\ ~ SkipHolds /\ ~ LightweightHolds
    /\ ~ MultipleHolds /\ ~ DirtyHolds

C11_StrayTagWarning ==
    Returned
        => /\ (AllFatalChecksPass /\ strayOnHead /= {})
                => /\ error_code = 0
                   /\ error_msg.is_none
                   /\ Len(StrayWarnings) = 1
                   /\ Len(StrayWarnings[1].args) = Cardinality(strayOnHead)
                   /\ {StrayWarnings[1].args[i] :
                          i \in 1..Len(StrayWarnings[1].args)} = strayOnHead
           /\ strayOnHead = {} => StrayWarnings = <<>>

\* HEAD carries a version, a version-shaped tag of an unrecognized product
\* number and a tag that is no version; only the last one is listed
C11_Witness ==
    /\ Returned /\ AllFatalChecksPass
    /\ \E t \in tags :
          /\ t.commit = HeadCommit
          /\ parse_version_tag(t.name).matched
          /\ parse_version_tag(t.name).sw_article_num
                \notin valid_sw_article_nums
    /\ strayOnHead = {<<"S", "o", "m", "e", "T", "a", "g">>}
    /\ Len(warning_msgs) = 1
    /\ warning_msgs[1].args = <<<<"S", "o", "m", "e", "T", "a", "g">>>>

\* ------------------------------------------------------------------------
\* C12  Comparison operators: for all Versions a and b each of ==, !=, <,
\* >, <=, >= evaluates to the same comparison of the integers
\* major*10000 + minor*100 + build of a and b, whatever their tag name,
\* commit id, product number and creation date, and none of them raises.
\* ------------------------------------------------------------------------
OrderKey(v) == v.major_ver * 10000 + v.minor_ver * 100 + v.build_num

IntegerComparison ==
    CASE op = "==" -> OrderKey(lhs) = OrderKey(rhs)
      [] op = "!=" -> OrderKey(lhs) /= OrderKey(rhs)
      [] op = "<"  -> OrderKey(lhs) < OrderKey(rhs)
      [] op = ">"  -> OrderKey(lhs) > OrderKey(rhs)
      [] op = "<=" -> OrderKey(lhs) <= OrderKey(rhs)
      [] op = ">=" -> OrderKey(lhs) >= OrderKey(rhs)

ComparisonOps == {"==", "!=", "<", ">", "<=", ">="}

C12_Comparisons ==
    op \in ComparisonOps
        => (~ value.raised /\ value.result = IntegerComparison)

\* ------------------------------------------------------------------------
\* C13  Successor computation: for a Version of key k with minor and build
\* in 0..99, next(roll_build) has key k + 1, next(roll_minor) the smallest
\* multiple of 100 above k and next(roll_major) the smallest multiple of
\* 10000 above k; major, minor and build of the result are the
\* decomposition of that key, minor and build in 0..99 again, so that
\* carries propagate.
\* ------------------------------------------------------------------------

\* r is the smallest multiple of m strictly greater than k
SmallestMultipleAbove(r, m, k) == r % m = 0 /\ r > k /\ r - m <= k

Rolls == {"roll_major", "roll_minor", "roll_build"}

C13_Successor ==
    op \in Rolls
        => LET k == OrderKey(lhs)
               n == value.result
               r == n.version
           IN  /\ ~ value.raised
               /\ op = "roll_build" => r = k + 1
               /\ op = "roll_minor" => SmallestMultipleAbove(r, 100, k)
               /\ op = "roll_major" => SmallestMultipleAbove(r, 10000, k)
               /\ n.minor_ver \in 0..99
               /\ n.build_num \in 0..99
               /\ n.major_ver >= 0
               /\ OrderKey(n) = r

\* 1.99.99 rolled by build is 2.00.00
C13_Witness ==
    /\ op = "roll_build"
    /\ lhs.major_ver = 1 /\ lhs.minor_ver = 99 /\ lhs.build_num = 99
    /\ value.result.major_ver = 2
    /\ value.result.minor_ver = 0
    /\ value.result.build_num = 0

\* ------------------------------------------------------------------------
\* C14  Kind-scoped most-recent search: the most recent version the skip
\* check uses is the historical version of greatest order key among those
\* of the kind of headVersions[0], the kind being release below 900000 and
\* test from 900000 on; in particular with the history {90.00.00} a head
\* tagged 90.00.01 passes the skip check.
\* ------------------------------------------------------------------------

\* run() has loaded the registry and found a head version
HeadLoaded == pc /= "idle" /\ ~ head_versions.is_none

\* The skip check has acted: run() is past it
PastSkipCheck ==
    pc \in {"check_lightweight", "check_multiple", "check_local_changes",
            "check_nonversion", "write_version_file",
            "print_version_information", "except", "return", "returned"}

C14_KindScopedMostRecent ==
    /\ (HeadLoaded /\ PastSkipCheck /\ ~ DuplicateHolds)
          => most_recent_version(versions, kind(head_versions.list[1]),
                                 Version3(0, 0, 0)).version
                = mostRecentKey(KindOfKey(headFirst.key))
    /\ ( /\ Returned /\ HeadPresent
         /\ {h.key : h \in historicalVersions} = {900000}
         /\ headFirst.key = 900001 )
          => error_code /= 5

\* ------------------------------------------------------------------------
\* C15  Registry partition: after get_head_versions, when head versions
\* exist, head_versions holds exactly the registry entries tagged on HEAD
\* and versions exactly those tagged elsewhere, both in tag-name order,
\* also when a historical entry and a head entry have the same order key.
\* ------------------------------------------------------------------------
TagNamesOf(list) == [i \in 1..Len(list) |-> list[i].tag_name]

C15_RegistryPartition ==
    HeadLoaded
        => /\ TagNamesOf(head_versions.list)
                = Sorted({e.name : e \in headVersions})
           /\ TagNamesOf(versions)
                = Sorted({e.name : e \in historicalVersions})
           /\ \A i \in 1..Len(head_versions.list) :
                 head_versions.list[i].sha1 = HeadCommit
           /\ \A i \in 1..Len(versions) : versions[i].sha1 /= HeadCommit

\* ------------------------------------------------------------------------
\* C16  Warnings survive an abort: when the skip check appends the
\* earlier-checkout warning and the annotation, the multiplicity or the
\* clean-tree check then fails, run returns that check's error code and a
\* warning list that still holds the earlier-checkout warning; and the
\* warning list a run returns holds only warnings appended during that
\* run.
\* ------------------------------------------------------------------------
EarlierText ==
    "HEAD is tagged with version {} but the most recent version is {}. Was this the intention (you might have checked out an earlier commit)?"

\* The skip check is reached and finds the head version not above the most
\* recent version of its kind
EarlierCheckout ==
    /\ HeadPresent
    /\ ~ DuplicateHolds
    /\ headFirst.key <= mostRecentKey(KindOfKey(headFirst.key))

EarlierWarning ==
    Msg(EarlierText,
        << Dotted(headFirst.key),
           Dotted(mostRecentKey(KindOfKey(headFirst.key))) >>)

\* The warnings the checks of one run append, in the order of the checks
WarningsOfRun ==
    (IF EarlierCheckout THEN <<EarlierWarning>> ELSE <<>>)
        \o (IF AllFatalChecksPass /\ strayOnHead /= {}
            THEN <<Msg(StrayText, Sorted(strayOnHead))>> ELSE <<>>)

C16_WarningsSurviveAbort ==
    Returned
        => /\ ( /\ EarlierCheckout
                /\ (LightweightHolds \/ MultipleHolds \/ DirtyHolds) )
                => /\ error_code = IF LightweightHolds THEN 4
                                   ELSE IF MultipleHolds THEN 3
                                   ELSE 2
                   /\ \E i \in 1..Len(warning_msgs) :
                         warning_msgs[i] = EarlierWarning
           /\ warning_msgs = WarningsOfRun

\* An earlier commit with a lightweight tag is checked out: code 4 and the
\* warning
C16_Witness ==
    /\ Returned /\ EarlierCheckout /\ LightweightHolds
    /\ error_code = 4
    /\ warning_msgs = <<EarlierWarning>>

\* ------------------------------------------------------------------------
\* C17  First test version: when no historical version is of test kind,
\* the most recent version defaults to 0.00.00 and the valid successors of
\* a test-kind head are 0.01.00 and 0.00.01, so that every test-kind
\* headVersions[0] (order key from 900000 on) fails with error code 5.
\* ------------------------------------------------------------------------
C17_Case ==
    /\ Returned /\ HeadPresent
    /\ KindOfKey(headFirst.key) = "test"
    /\ ~ \E h \in historicalVersions : KindOfKey(h.key) = "test"

C17_FirstTestVersion ==
    C17_Case
        => /\ ~ DuplicateHolds
           /\ error_code = 5
           /\ ~ error_msg.is_none
           /\ error_msg.text = "You skipped a test version, the next version should be either {} or {}."
           /\ error_msg.args = << <<"0", ".", "0", "1", ".", "0", "0">>,
                                  <<"0", ".", "0", "0", ".", "0", "1">> >>

\* HEAD tagged 90.00.00 with an annotated tag on a clean tree, after the
\* release 89.00.00
C17_Witness ==
    /\ C17_Case
    /\ SingleCleanHead
    /\ headFirst.key = 900000
    /\ {h.key : h \in historicalVersions} = {890000}
    /\ error_code = 5

\* ------------------------------------------------------------------------
\* C18  Dirty marker implies placeholder version: in every header run
\* writes, a SW_REVISIONHASH made of "+" and the full commit id comes with
\* no head version and with SW_VER_MAJOR 90 and SW_VER_MINOR 0; a header
\* that carries major and minor of a head version tag carries the first 12
\* characters of the commit id, without "+".
\* ------------------------------------------------------------------------
HeaderWritten == Returned /\ written /\ target_file.exists

C18_DirtyMarker ==
    HeaderWritten
        => /\ target_file.SW_REVISIONHASH = <<"+">> \o HeadCommit
                => /\ ~ HeadPresent
                   /\ target_file.SW_VER_MAJOR = <<"9", "0">>
                   /\ target_file.SW_VER_MINOR = <<"0">>
           /\ HeadPresent
                => /\ target_file.SW_VER_MAJOR
                        = FormatInt(headFirst.key \div 10000)
                   /\ target_file.SW_VER_MINOR
                        = FormatInt((headFirst.key % 10000) \div 100)
                   /\ target_file.SW_REVISIONHASH = SubSeq(HeadCommit, 1, 12)
                   /\ Len(target_file.SW_REVISIONHASH) = 12
                   /\ target_file.SW_REVISIONHASH[1] /= "+"

\* Staged changes on an untagged HEAD of a repository with versions
C18_Witness ==
    /\ HeaderWritten
    /\ ~ HeadPresent
    /\ historicalVersions /= {}
    /\ workingtree_diff = <<>> /\ index_diff /= <<>>
    /\ target_file.SW_REVISIONHASH = <<"+">> \o HeadCommit
    /\ target_file.SW_VER_MAJOR = <<"9", "0">>

====
